---- MODULE Spec2Model ----
(***************************************************************************)
(* The Stripe backends of the repository: the customer-identity resolver    *)
(* (the in-memory customerMap and the paginated scan of the vendor's        *)
(* customer directory), the handlers that use it (create-customer,          *)
(* payment-methods, create-payment-intent) and the handlers that pass one   *)
(* request on to the vendor.  The repository holds four backends:           *)
(*   "simple"   src/server.js                (cache, then customers.create) *)
(*   "connect"  src/unnamed/part_001:1-672   (server.js with more routes)   *)
(*   "scan"     src/unnamed/part_001:675-    (cache, directory scan, create)*)
(*   "minimal"  src/unnamed/part_000         (two account routes)           *)
(* A handler is an async function: it runs without interruption up to its   *)
(* next await, so each action below is one such run, from the request (or   *)
(* from the vendor's answer to the awaited call) up to the next vendor      *)
(* call or the response.                                                    *)
(***************************************************************************)
EXTENDS Integers, Sequences, FiniteSets, TLC

VARIABLES
    variant,      \* which backend this process runs
    env,          \* the environment variables that are set
    customerMap,  \* userId -> customerId (NoCustomer: not a key)
    oldLen,       \* vendor directory: records that exist when the process starts
    oldTagged,    \* the ones among them tagged with a userId, as <<id, userId>>
    created,      \* userId tags of the records this process created, oldest first
    req,          \* the requests in flight, per connection
    last,         \* the latest response sent, with the history of its request
    resolved,     \* userId -> the customerIds create-customer answered, oldest first
    overlapped,   \* userId -> two create-customer requests of the user have overlapped
    failed,       \* userId -> a vendor call of a create-customer request of the user failed
    started       \* number of requests received

vars == <<variant, env, customerMap, oldLen, oldTagged, created, req, last, resolved,
          overlapped, failed, started>>

-----------------------------------------------------------------------------
(* Bounds of the model *)

MaxRequests == 3
MaxLargeRequests == 1
MaxOld == 1001
MaxHandlerRequests == 1

(* Program constants *)

Limit == 100
ScanLimit == 1000
MaxPages == ScanLimit \div Limit

Users == {"u1", "u2"}
Undefined == "undefined"
Other == "other"
NoCustomer == 0
Conns == {"a", "b"}
Variants == {"simple", "scan"}
Amounts == {<<>>, <<-1>>, <<0>>, <<1>>}
EnvNames == {"STRIPE_SECRET_KEY", "STRIPE_CLIENT_ID"}

-----------------------------------------------------------------------------
(* The vendor's customer directory.  Record ids are 1..DirLen; the vendor   *)
(* lists the newest record first, so the list order is DirLen, ..., 1.      *)

DirLen == oldLen + Len(created)

TagOf(id) ==
    IF id > oldLen THEN created[id - oldLen]
    ELSE IF \E t \in oldTagged : t[1] = id
         THEN (CHOOSE t \in oldTagged : t[1] = id)[2]
         ELSE Other

Tagged(userId) == {id \in 1..DirLen : TagOf(id) = userId}

MaxOf(S) == CHOOSE x \in S : \A y \in S : y <= x

\* stripe.customers.list({limit, starting_after}): the page after the cursor
ListPage(startingAfter) ==
    LET hi == IF startingAfter = NoCustomer THEN DirLen ELSE startingAfter - 1
        lo == IF hi - Limit + 1 < 1 THEN 1 ELSE hi - Limit + 1
    IN  [hi |-> hi, lo |-> lo, has_more |-> hi >= 1 /\ lo > 1]

PageLength(page) == IF page.hi < 1 THEN 0 ELSE page.hi - page.lo + 1

\* the has_more the vendor may send with a page: whether records follow it; the
\* handlers do not rely on it when the page is shorter than the limit
HasMoreReports(page) ==
    IF PageLength(page) < Limit THEN BOOLEAN ELSE {page.has_more}

\* mutant: the predicate reads a metadata key the records do not carry
FindCustomer_WrongKey(page, userId) == NoCustomer

\* mutant: the first record of the page is taken, whatever its metadata
FindCustomer_First(page, userId) ==
    IF PageLength(page) > 0 THEN page.hi ELSE NoCustomer

\* existingCustomers.data.find(customer => customer.metadata?.firebaseUserId === userId)
FindCustomer(page, userId) ==
    LET matches == {id \in page.lo..page.hi : TagOf(id) = userId}
    IN  IF matches = {} THEN NoCustomer ELSE MaxOf(matches)

\* mutant: the length of the page is not looked at
NextHasMore_Reported(page) == page.has_more

\* hasMore after one page: has_more, forced to false by a page shorter than the limit
NextHasMore(page) ==
    IF PageLength(page) < Limit THEN FALSE ELSE page.has_more

\* mutant: the cursor is the id of the first record of the page
NextStartingAfter_First(page, startingAfter) ==
    IF PageLength(page) > 0 THEN page.hi ELSE startingAfter

\* mutant: the cursor is not moved
NextStartingAfter_Kept(page, startingAfter) == startingAfter

\* startingAfter after one page: the id of the page's last record, if it has one
NextStartingAfter(page, startingAfter) ==
    IF PageLength(page) > 0 THEN page.lo ELSE startingAfter

\* mutant: the loop goes on after a match
ScanContinues_PastMatch(hasMore, foundCustomer) == hasMore

\* mutant: the loop reads one page only
ScanContinues_OnePage(hasMore, foundCustomer) == FALSE

\* while (hasMore && !foundCustomer)
ScanContinues(hasMore, foundCustomer) ==
    hasMore /\ foundCustomer = NoCustomer

-----------------------------------------------------------------------------
(* Requests *)

NoError == [code |-> "", message |-> ""]

Idle ==
    [kind |-> "none", pc |-> "idle", userId |-> Undefined, amount |-> <<>>,
     startingAfter |-> NoCustomer, calls |-> <<>>, listFailed |-> FALSE,
     cached |-> NoCustomer, dirAtStart |-> 0, alone |-> TRUE,
     status |-> 0, body |-> "", customerId |-> NoCustomer, error |-> "",
     newId |-> NoCustomer, missing |-> {}, prefixed |-> TRUE, failure |-> NoError,
     code |-> "", message |-> "", returnUrl |-> <<>>, refreshUrl |-> <<>>,
     return_url |-> <<>>, refresh_url |-> <<>>]

Call(op, arg) == [op |-> op, arg |-> arg]

Count(calls, op) == Cardinality({i \in 1..Len(calls) : calls[i].op = op})

InFlight(c) == req[c].pc # "idle"

\* the resolutions (create-customer requests) of userId in flight on other connections
Resolving(c, userId) ==
    {d \in Conns \ {c} : /\ InFlight(d)
                         /\ req[d].kind = "create-customer"
                         /\ req[d].userId = userId}

\* the resolutions in flight for userId learn that they overlap with a new one
Overlapped(c, userId) ==
    [d \in Conns |->
        IF d \in Resolving(c, userId) THEN [req[d] EXCEPT !.alone = FALSE] ELSE req[d]]

NewRequest(c, kind, userId, amount) ==
    [Idle EXCEPT !.kind = kind, !.userId = userId, !.amount = amount,
                 !.cached = IF userId \in Users THEN customerMap[userId] ELSE NoCustomer,
                 !.dirAtStart = DirLen]

\* requests followed in one run: fewer over a directory whose scans are long
RequestBound == IF oldLen > ScanLimit THEN MaxLargeRequests ELSE MaxRequests

Answered == started - Cardinality({c \in Conns : InFlight(c)})

\* res.status(status).json(...): the response ends the request
Respond(c, others, r, status, body, customerId, error) ==
    /\ last' = [r EXCEPT !.status = status, !.body = body,
                         !.customerId = customerId, !.error = error]
    /\ req' = [others EXCEPT ![c] = Idle]
    /\ resolved' = IF r.kind = "create-customer" /\ status = 200
                   THEN [resolved EXCEPT ![r.userId] = Append(@, customerId)]
                   ELSE resolved

\* the handler suspends on an awaited vendor call
Await(c, others, r, pc, op, arg) ==
    /\ req' = [others EXCEPT
                  ![c] = [r EXCEPT !.pc = pc, !.calls = Append(r.calls, Call(op, arg))]]
    /\ UNCHANGED <<last, resolved>>

VendorMessage == "vendor error"

-----------------------------------------------------------------------------
(* POST /api/stripe/create-customer *)

\* if (!userId)
MissingUserId(userId) == userId = Undefined

\* mutant: the cache is never consulted
CacheHas_Never(userId) == FALSE

\* customerMap.has(userId)
CacheHas(userId) == customerMap[userId] # NoCustomer

\* mutant: the map keeps the latest mapping only
CacheSet_LatestOnly(userId, customerId) ==
    [u \in Users |-> IF u = userId THEN customerId ELSE NoCustomer]

\* mutant: the mapping is not stored
CacheSet_Dropped(userId, customerId) == customerMap

\* customerMap.set(userId, customerId)
CacheSet(userId, customerId) == [customerMap EXCEPT ![userId] = customerId]

\* what the handler does on a cache miss: search the directory, or create at once
MissPath == IF variant = "scan" THEN "list" ELSE "create"

StartCreateCustomer(c, userId) ==
    /\ req[c].pc = "idle"
    /\ started < RequestBound
    /\ started' = started + 1
    /\ LET r == [NewRequest(c, "create-customer", userId, <<>>)
                    EXCEPT !.alone = (Resolving(c, userId) = {})]
           others == Overlapped(c, userId)
       IN  IF MissingUserId(userId)
           THEN Respond(c, others, r, 400, "error", NoCustomer, "userId is required")
           ELSE IF CacheHas(userId)
           THEN Respond(c, others, r, 200, "customerId", customerMap[userId], "")
           ELSE IF MissPath = "list"
           THEN Await(c, others, r, "list", "customers.list", NoCustomer)
           ELSE Await(c, others, r, "create", "customers.create", NoCustomer)
    /\ overlapped' = IF Resolving(c, userId) # {}
                     THEN [overlapped EXCEPT ![userId] = TRUE]
                     ELSE overlapped
    /\ UNCHANGED <<variant, env, customerMap, oldLen, oldTagged, created, failed>>

\* after the scan of create-customer: answer with the record found, or create one
AfterScanCreateCustomer(c, r, foundCustomer) ==
    IF foundCustomer # NoCustomer
    THEN /\ customerMap' = CacheSet(r.userId, foundCustomer)
         /\ Respond(c, req, r, 200, "customerId", foundCustomer, "")
    ELSE /\ customerMap' = customerMap
         /\ Await(c, req, r, "create", "customers.create", NoCustomer)

\* mutant: payment-methods creates the missing record, as create-customer does
AfterScanPaymentMethods_Creates(c, r, foundCustomer) ==
    AfterScanCreateCustomer(c, r, foundCustomer)

\* after the scan of payment-methods: list the customer's cards, or answer with none
AfterScanPaymentMethods(c, r, foundCustomer) ==
    IF foundCustomer # NoCustomer
    THEN /\ customerMap' = CacheSet(r.userId, foundCustomer)
         /\ Await(c, req, r, "pmlist", "paymentMethods.list", foundCustomer)
    ELSE /\ customerMap' = customerMap
         /\ Respond(c, req, r, 200, "paymentMethods:[]", NoCustomer, "")

\* one turn of the scan loop, on the page the vendor answered
ScanTurn(c, page) ==
    /\ req[c].pc = "list"
    /\ LET r0 == req[c]
           foundCustomer == FindCustomer(page, r0.userId)
           hasMore == NextHasMore(page)
           startingAfter == NextStartingAfter(page, r0.startingAfter)
           r == [r0 EXCEPT !.startingAfter = startingAfter]
       IN  IF ScanContinues(hasMore, foundCustomer)
           THEN /\ Await(c, req, r, "list", "customers.list", startingAfter)
                /\ customerMap' = customerMap
           ELSE IF r.kind = "create-customer"
           THEN AfterScanCreateCustomer(c, r, foundCustomer)
           ELSE AfterScanPaymentMethods(c, r, foundCustomer)
    /\ UNCHANGED <<variant, env, oldLen, oldTagged, created, overlapped, failed, started>>

\* stripe.customers.list returns a page
ListReturns(c) ==
    \E has_more \in HasMoreReports(ListPage(req[c].startingAfter)) :
        ScanTurn(c, [ListPage(req[c].startingAfter) EXCEPT !.has_more = has_more])

\* mutant: the failure of the scan reaches the outer catch, which answers 500
ListFails_Reported(c) ==
    /\ req[c].pc = "list"
    /\ Respond(c, req, [req[c] EXCEPT !.listFailed = TRUE], 500, "error", NoCustomer,
               VendorMessage)
    /\ failed' = IF req[c].kind = "create-customer"
                 THEN [failed EXCEPT ![req[c].userId] = TRUE]
                 ELSE failed
    /\ UNCHANGED <<variant, env, customerMap, oldLen, oldTagged, created, overlapped, started>>

\* stripe.customers.list throws: catch (searchError) logs and falls through
ListFails(c) ==
    /\ req[c].pc = "list"
    /\ LET r == [req[c] EXCEPT !.listFailed = TRUE]
       IN  IF r.kind = "create-customer"
           THEN /\ AfterScanCreateCustomer(c, r, NoCustomer)
                /\ failed' = [failed EXCEPT ![r.userId] = TRUE]
           ELSE /\ AfterScanPaymentMethods(c, r, NoCustomer)
                /\ failed' = failed
    /\ UNCHANGED <<variant, env, oldLen, oldTagged, created, overlapped, started>>

\* stripe.customers.create returns the new record
CreateReturns(c) ==
    /\ req[c].pc = "create"
    /\ LET r == req[c]
           customer == DirLen + 1
       IN  /\ created' = Append(created, r.userId)
           /\ customerMap' = CacheSet(r.userId, customer)
           /\ Respond(c, req, [r EXCEPT !.newId = customer], 200, "customerId",
                      customer, "")
    /\ UNCHANGED <<variant, env, oldLen, oldTagged, overlapped, failed, started>>

\* mutant: the failed creation caches the newest record of the directory
CreateFails_Cached(c) ==
    /\ req[c].pc = "create"
    /\ Respond(c, req, req[c], 500, "error", NoCustomer, VendorMessage)
    /\ customerMap' = CacheSet(req[c].userId, DirLen)
    /\ failed' = [failed EXCEPT ![req[c].userId] = TRUE]
    /\ UNCHANGED <<variant, env, oldLen, oldTagged, created, overlapped, started>>

\* stripe.customers.create throws: the outer catch answers 500
CreateFails(c) ==
    /\ req[c].pc = "create"
    /\ Respond(c, req, req[c], 500, "error", NoCustomer, VendorMessage)
    /\ failed' = [failed EXCEPT ![req[c].userId] = TRUE]
    /\ UNCHANGED <<variant, env, customerMap, oldLen, oldTagged, created, overlapped, started>>

-----------------------------------------------------------------------------
(* GET /api/stripe/payment-methods/:userId *)

StartPaymentMethods(c, userId) ==
    /\ req[c].pc = "idle"
    /\ started < RequestBound
    /\ started' = started + 1
    /\ LET r == NewRequest(c, "payment-methods", userId, <<>>)
           others == req
           customerId == customerMap[userId]
       IN  IF customerId # NoCustomer
           THEN Await(c, others, r, "pmlist", "paymentMethods.list", customerId)
           ELSE IF MissPath = "list"
           THEN Await(c, others, r, "list", "customers.list", NoCustomer)
           ELSE Respond(c, others, r, 200, "paymentMethods:[]", NoCustomer, "")
    /\ UNCHANGED <<variant, env, customerMap, oldLen, oldTagged, created, overlapped, failed>>

PaymentMethodsReturns(c) ==
    /\ req[c].pc = "pmlist"
    /\ Respond(c, req, req[c], 200, "paymentMethods",
               req[c].calls[Len(req[c].calls)].arg, "")
    /\ UNCHANGED <<variant, env, customerMap, oldLen, oldTagged, created, overlapped, failed, started>>

PaymentMethodsFails(c) ==
    /\ req[c].pc = "pmlist"
    /\ Respond(c, req, req[c], 500, "error", NoCustomer, VendorMessage)
    /\ UNCHANGED <<variant, env, customerMap, oldLen, oldTagged, created, overlapped, failed, started>>

-----------------------------------------------------------------------------
(* POST /api/stripe/create-payment-intent *)

\* !amount: undefined (a missing field) and 0 are falsy
Falsy(amount) == amount = <<>> \/ amount = <<0>>

\* mutant: only !amount is tested
InvalidAmount_FalsyOnly(amount) == Falsy(amount)

\* if (!amount || amount <= 0)
InvalidAmount(amount) == Falsy(amount) \/ amount[1] <= 0

StartPaymentIntent(c, amount) ==
    /\ req[c].pc = "idle"
    /\ started < RequestBound
    /\ started' = started + 1
    /\ LET r == NewRequest(c, "create-payment-intent", Undefined, amount)
       IN  IF InvalidAmount(amount)
           THEN Respond(c, req, r, 400, "error", NoCustomer, "Valid amount is required")
           ELSE Await(c, req, r, "picreate", "paymentIntents.create", NoCustomer)
    /\ UNCHANGED <<variant, env, customerMap, oldLen, oldTagged, created, overlapped, failed>>

PaymentIntentReturns(c) ==
    /\ req[c].pc = "picreate"
    /\ Respond(c, req, req[c], 200, "clientSecret", NoCustomer, "")
    /\ UNCHANGED <<variant, env, customerMap, oldLen, oldTagged, created, overlapped, failed, started>>

PaymentIntentFails(c) ==
    /\ req[c].pc = "picreate"
    /\ Respond(c, req, req[c], 500, "error", NoCustomer, VendorMessage)
    /\ UNCHANGED <<variant, env, customerMap, oldLen, oldTagged, created, overlapped, failed, started>>

-----------------------------------------------------------------------------
(* The handlers that pass a request on to the vendor.  The routes of each   *)
(* backend, named as in the source without the /api/stripe prefix.          *)

Backends == {"simple", "connect", "scan", "minimal"}

SimpleRoutes ==
    {"create-setup-intent", "delete-payment-method", "connect/create-account",
     "connect/create-account-link", "connect/account-status",
     "connect/transfer-to-provider"}

Routes ==
    CASE variant = "simple" -> SimpleRoutes
      [] variant = "connect" ->
            SimpleRoutes \cup {"connect/oauth-link", "connect/oauth-callback",
                               "connect/link-existing-account",
                               "connect/create-login-link"}
      [] variant = "scan" ->
            {"create-account", "create-account-session", "create-setup-intent",
             "delete-payment-method", "create-ephemeral-key", "create-payout",
             "verify-bank-account", "create-bank-payout"}
      [] variant = "minimal" -> {"create-account", "create-account-session"}

\* the fields of the request a handler reads, other than amount
Fields(route) ==
    CASE route \in {"create-setup-intent", "create-ephemeral-key"} -> {"customerId"}
      [] route = "connect/create-account" -> {"userId"}
      [] route = "connect/oauth-link" -> {"returnUrl", "refreshUrl"}
      [] route = "connect/oauth-callback" -> {"code"}
      [] route = "connect/link-existing-account" -> {"userId", "accountId"}
      [] route \in {"connect/create-account-link", "connect/create-login-link",
                    "create-account-session"} -> {"accountId"}
      [] route = "connect/transfer-to-provider" -> {"providerConnectAccountId"}
      [] route = "create-payout" -> {"userId", "destination"}
      [] route = "verify-bank-account" ->
            {"routingNumber", "accountNumber", "accountHolderName"}
      [] route = "create-bank-payout" ->
            {"userId", "routingNumber", "accountNumber", "accountHolderName"}
      [] OTHER -> {}

\* the routes whose handler reads amount
TakesAmount ==
    {"connect/transfer-to-provider", "create-payout", "create-bank-payout"}

\* the routes whose handler tests the prefix of an id with startsWith('acct_')
TestsPrefix == {"connect/link-existing-account", "create-payout"}

\* A URL is the sequence of its scheme and of the segments that follow "://",
\* which "/" separates: viddcall://x is <<"viddcall", "x">>, https://h/x is
\* <<"https", "h", "x">>; a missing URL is <<>>.
Urls ==
    {<<>>, <<"viddcall", "stripe-connect-return">>, <<"https", "example.com", "return">>,
     <<"myapp", "return">>}

\* returnUrl is truthy
Given(url) == url # <<>>

\* url.startsWith('viddcall://')
StartsWithViddcall(url) == Given(url) /\ url[1] = "viddcall"

\* url.startsWith('http')
StartsWithHttp(url) == Given(url) /\ url[1] \in {"http", "https"}

\* the default return and refresh URLs of create-account-link
DefaultUrl(field) ==
    IF variant = "connect"
    THEN <<"https", "viddcall.com",
           IF field = "returnUrl" THEN "stripe-connect-return" ELSE "stripe-connect-refresh">>
    ELSE <<"https", "viddycall.com", IF field = "returnUrl" THEN "return" ELSE "refresh">>

\* the URL create-account-link passes to accountLinks.create for the url of the
\* request: finalReturnUrl, finalRefreshUrl
FinalUrl(url, field) ==
    LET initial == IF Given(url) THEN url ELSE DefaultUrl(field)
    IN  IF variant # "connect" THEN initial
        ELSE IF StartsWithViddcall(url) THEN <<"https", "viddcall.com">> \o Tail(url)
        ELSE IF StartsWithHttp(url) THEN url
        ELSE initial

\* the returnUrl and refreshUrl a client may send to a route: to
\* create-account-link two URLs of the same kind, or two of different kinds
UrlPairs(route) ==
    IF route = "connect/create-account-link"
    THEN {<<url, url>> : url \in Urls}
            \cup {<<<<"viddcall", "stripe-connect-return">>, <<>>>>,
                  <<<<"myapp", "return">>, <<"https", "example.com", "return">>>>}
    ELSE {<<<<>>, <<>>>>}

\* the requests a client may send to a route: no field or one field omitted,
\* any amount, an id with or without the acct_ prefix
Bodies(route) ==
    {[missing |-> missing, amount |-> amount, prefixed |-> prefixed,
      returnUrl |-> urls[1], refreshUrl |-> urls[2]] :
        missing \in {{}} \cup {{f} : f \in Fields(route)},
        amount \in IF route \in TakesAmount THEN Amounts ELSE {<<>>},
        prefixed \in IF route \in TestsPrefix THEN BOOLEAN ELSE {TRUE},
        urls \in UrlPairs(route)}

\* res.status(status).json({error, code})
Reply(status, error, code) ==
    [status |-> status, error |-> error, code |-> code, message |-> ""]

\* the same response with a message field
WithMessage(reply, message) == [reply EXCEPT !.message = message]

\* the handler goes on to its vendor call
Passed == Reply(0, "", "")

\* the handler throws out of its catch block: the request gets no response
Uncaught == Reply(-1, "ReferenceError", "")

\* the handlers of the connect backend that test process.env.STRIPE_SECRET_KEY
KeyChecked ==
    {"connect/create-account", "connect/oauth-link", "connect/oauth-callback",
     "connect/link-existing-account", "connect/create-account-link",
     "connect/create-login-link"}

\* if (!process.env.STRIPE_SECRET_KEY), if (!process.env.STRIPE_CLIENT_ID)
Configured(route) ==
    IF variant = "connect" /\ route \in KeyChecked /\ "STRIPE_SECRET_KEY" \notin env
    THEN Reply(500, "Server configuration error: STRIPE_SECRET_KEY not set",
               "MISSING_STRIPE_KEY")
    ELSE IF route = "connect/oauth-link" /\ "STRIPE_CLIENT_ID" \notin env
    THEN Reply(500, "OAuth Connect requires STRIPE_CLIENT_ID", "MISSING_CLIENT_ID")
    ELSE Passed

\* the message of the 400 a handler answers when a field it tests is falsy
RequiredMessage(route) ==
    CASE route \in {"create-setup-intent", "create-ephemeral-key"} ->
            "customerId is required"
      [] route = "connect/create-account" -> "userId is required"
      [] route = "connect/oauth-link" ->
            "returnUrl and refreshUrl query parameters are required"
      [] route = "connect/oauth-callback" -> "OAuth code is required"
      [] route = "connect/link-existing-account" -> "userId and accountId are required"
      [] route \in {"connect/create-account-link", "connect/create-login-link"} ->
            "accountId is required"
      [] route = "connect/transfer-to-provider" -> "providerConnectAccountId is required"
      [] route = "create-payout" -> "userId and valid amount are required"
      [] route = "verify-bank-account" ->
            "routingNumber, accountNumber, and accountHolderName are required"
      [] route = "create-bank-payout" ->
            "userId, valid amount, routingNumber, accountNumber, and accountHolderName are required"
      [] OTHER -> ""

\* mutant: no handler tests its fields
Tested_None(route) == {}

\* the fields a handler tests with if (!field): create-account-session tests none,
\* create-payout does not test destination here
Tested(route) ==
    CASE route = "create-account-session" -> {}
      [] route = "create-payout" -> {"userId"}
      [] OTHER -> Fields(route)

\* mutant: create-payout asks for a destination, whatever its prefix
Validate_AnyDestination(route, body) ==
    IF Configured(route) # Passed THEN Configured(route)
    ELSE IF route = "connect/transfer-to-provider" /\ InvalidAmount(body.amount)
    THEN Reply(400, "Valid amount is required", "")
    ELSE IF body.missing \cap Tested(route) # {}
    THEN Reply(400, RequiredMessage(route), "")
    ELSE IF route \in {"create-payout", "create-bank-payout"} /\ InvalidAmount(body.amount)
    THEN Reply(400, RequiredMessage(route), "")
    ELSE IF route = "create-payout" /\ "destination" \in body.missing
    THEN Reply(400, "Payout destination required. Please set up a connected account or bank account.", "")
    ELSE Passed

\* the tests a handler makes before its first vendor call, in their order
Validate(route, body) ==
    IF Configured(route) # Passed THEN Configured(route)
    ELSE IF route = "connect/transfer-to-provider" /\ InvalidAmount(body.amount)
    THEN Reply(400, "Valid amount is required", "")
    ELSE IF body.missing \cap Tested(route) # {}
    THEN Reply(400, RequiredMessage(route), "")
    ELSE IF route \in {"create-payout", "create-bank-payout"} /\ InvalidAmount(body.amount)
    THEN Reply(400, RequiredMessage(route), "")
    ELSE IF route = "create-payout"
            /\ ~("destination" \notin body.missing /\ body.prefixed)
    THEN Reply(400, "Payout destination required. Please set up a connected account or bank account.", "")
    ELSE Passed

\* mutant: every handler retrieves the account before its call
Ops_RetrieveFirst(route) == <<"accounts.retrieve", "transfers.create">>

\* the vendor calls of a handler, in the order it awaits them
Ops(route) ==
    CASE route = "create-setup-intent" -> <<"setupIntents.create">>
      [] route = "delete-payment-method" -> <<"paymentMethods.detach">>
      [] route \in {"connect/create-account", "create-account"} -> <<"accounts.create">>
      [] route = "connect/oauth-link" -> <<"oauth.authorizeUrl">>
      [] route = "connect/oauth-callback" -> <<"oauth.token">>
      [] route \in {"connect/link-existing-account", "connect/account-status"} ->
            <<"accounts.retrieve">>
      [] route = "connect/create-account-link" -> <<"accountLinks.create">>
      [] route = "connect/create-login-link" ->
            <<"accounts.retrieve", "accounts.createLoginLink">>
      [] route \in {"connect/transfer-to-provider", "create-payout"} ->
            <<"transfers.create">>
      [] route = "create-account-session" -> <<"accountSessions.create">>
      [] route = "create-ephemeral-key" -> <<"ephemeralKeys.create">>
      [] route = "verify-bank-account" ->
            <<"tokens.create", "accounts.createExternalAccount">>
      [] route = "create-bank-payout" -> <<"tokens.create", "payouts.create">>

-----------------------------------------------------------------------------
(* The errors of the vendor, and what the catch blocks make of them *)

Codes ==
    {"balance_insufficient", "resource_missing", "account_invalid", "account_required",
     "invalid_request_error", "payouts_not_allowed", "api_error"}

Messages ==
    {"a similar object exists in test mode, but a live mode key was used",
     "Insufficient funds",
     "Invalid bank_account number",
     "No such destination account",
     "Instant payouts are not supported"}

VendorErrors == [code : Codes, message : Messages]

\* message.includes(needle), for the needles the catch blocks look for
Includes(message, needle) ==
    <<message, needle>> \in
        {<<"a similar object exists in test mode, but a live mode key was used", "test mode">>,
         <<"Invalid bank_account number", "bank_account">>,
         <<"Invalid bank_account number", "account">>,
         <<"No such destination account", "account">>,
         <<"Instant payouts are not supported", "payout">>}

\* mutant: the vendor's message is withheld
Reply500_Masked(failure) == Reply(500, "Internal server error", "")

\* res.status(500).json({ error: error.message })
Reply500(failure) == Reply(500, failure.message, "")

\* res.status(500).json({ error: error.message || 'Unknown error', code: error.code || 'unknown' })
Reply500Code(failure) == Reply(500, failure.message, failure.code)

\* mutant: the insufficient balance is not told apart
TransferCatch_Plain(failure) == Reply500(failure)

\* the catch block of transfer-to-provider
TransferCatch(failure) ==
    IF failure.code = "balance_insufficient"
    THEN WithMessage(Reply(400, "Insufficient available balance", "balance_insufficient"),
                     "Transfer will be retried when funds are available")
    ELSE Reply500(failure)

\* the catch block of create-setup-intent in server.js: its first branch reads
\* customerId, which is declared in the try block and not in scope here
SetupIntentCatch(failure) ==
    IF failure.code = "resource_missing" /\ Includes(failure.message, "test mode")
    THEN Uncaught
    ELSE Reply500Code(failure)

\* mutant: the missing account is not told apart
LinkAccountCatch_Plain(failure) == Reply500Code(failure)

\* the catch blocks of link-existing-account: the inner one, then the outer one
LinkAccountCatch(failure) ==
    IF failure.code = "resource_missing"
    THEN Reply(404, "Account not found. Make sure the account ID is correct and accessible with your Stripe key.",
               "ACCOUNT_NOT_FOUND")
    ELSE Reply500Code(failure)

\* the catch block of verify-bank-account
VerifyBankCatch(failure) ==
    IF failure.code = "invalid_request_error" /\ Includes(failure.message, "bank_account")
    THEN Reply(400, "Invalid bank account details. Please check your routing and account numbers.", "")
    ELSE Reply500(failure)

\* the catch block of create-bank-payout
BankPayoutCatch(failure) ==
    IF \/ failure.code = "account_invalid"
       \/ Includes(failure.message, "account")
       \/ failure.code = "account_required"
    THEN Reply(400, "Your Stripe account needs to be set up for payouts.", "")
    ELSE IF failure.code = "invalid_request_error" /\ Includes(failure.message, "bank_account")
    THEN Reply(400, "Invalid bank account details. Please check your routing and account numbers.", "")
    ELSE IF failure.code = "payouts_not_allowed" \/ Includes(failure.message, "payout")
    THEN Reply(400, "Payouts are not enabled for your account.", "")
    ELSE Reply500(failure)

\* the catch block of the handler of a route
Catch(route, failure) ==
    CASE route = "connect/transfer-to-provider" -> TransferCatch(failure)
      [] route = "create-setup-intent" /\ variant # "scan" -> SetupIntentCatch(failure)
      [] route = "connect/link-existing-account" -> LinkAccountCatch(failure)
      [] route = "verify-bank-account" -> VerifyBankCatch(failure)
      [] route = "create-bank-payout" -> BankPayoutCatch(failure)
      [] variant = "connect" /\ route \in KeyChecked -> Reply500Code(failure)
      [] OTHER -> Reply500(failure)

\* what the handler does with the vendor's answer to its last call: complete
\* tells whether the answer carries the field the handler reads from it
AfterCalls(route, body, complete) ==
    CASE route = "connect/oauth-callback" /\ ~complete ->
            Reply(400, "Failed to get account ID from OAuth response", "")
      [] route = "connect/link-existing-account" /\ ~body.prefixed ->
            Reply(400, "Invalid account ID format. Must be a Stripe Connect account ID (starts with acct_)",
                  "INVALID_ACCOUNT_ID")
      [] route = "connect/create-login-link" /\ ~complete ->
            Reply500Code([code |-> "unknown",
                          message |-> "Invalid login link URL returned from Stripe"])
      [] OTHER -> Reply(200, "", "")

\* the routes whose handler reads a field of the vendor's last answer
ReadsAnswer == {"connect/oauth-callback", "connect/create-login-link"}

\* the response of a handler, or none when it throws out of its catch block
HandlerRespond(c, r, reply) ==
    IF reply = Uncaught
    THEN /\ req' = [req EXCEPT ![c] = [r EXCEPT !.pc = "unanswered"]]
         /\ UNCHANGED <<last, resolved>>
    ELSE Respond(c, req, [r EXCEPT !.code = reply.code, !.message = reply.message],
                 reply.status,
                 IF reply.status = 200 THEN "ok" ELSE "error", NoCustomer, reply.error)

\* a request to one of the routes, among the first requests the process
\* receives: validation, then the first vendor call
StartHandler(c, route, body) ==
    /\ req[c].pc = "idle"
    /\ started < MaxHandlerRequests
    /\ route \in Routes
    /\ started' = started + 1
    /\ LET r == [NewRequest(c, route, Undefined, body.amount)
                    EXCEPT !.missing = body.missing, !.prefixed = body.prefixed,
                           !.returnUrl = body.returnUrl, !.refreshUrl = body.refreshUrl]
           sent == IF route = "connect/create-account-link"
                   THEN [r EXCEPT !.return_url = FinalUrl(body.returnUrl, "returnUrl"),
                                  !.refresh_url = FinalUrl(body.refreshUrl, "refreshUrl")]
                   ELSE r
       IN  IF Validate(route, body) # Passed
           THEN HandlerRespond(c, r, Validate(route, body))
           ELSE Await(c, req, sent, "call", Ops(route)[1], NoCustomer)
    /\ UNCHANGED <<variant, env, customerMap, oldLen, oldTagged, created, overlapped, failed>>

\* the awaited vendor call returns: the next call, or the response
HandlerReturns(c) ==
    /\ req[c].pc = "call"
    /\ LET r == req[c]
           body == [missing |-> r.missing, amount |-> r.amount, prefixed |-> r.prefixed]
       IN  IF Len(r.calls) < Len(Ops(r.kind))
           THEN Await(c, req, r, "call", Ops(r.kind)[Len(r.calls) + 1], NoCustomer)
           ELSE \E complete \in IF r.kind \in ReadsAnswer THEN BOOLEAN ELSE {TRUE} :
                    HandlerRespond(c, r, AfterCalls(r.kind, body, complete))
    /\ UNCHANGED <<variant, env, customerMap, oldLen, oldTagged, created, overlapped, failed, started>>

\* mutant: the failed call is issued again
HandlerFailsWith_Retried(c, failure) ==
    /\ req[c].pc = "call"
    /\ Await(c, req, [req[c] EXCEPT !.failure = failure], "call",
             req[c].calls[Len(req[c].calls)].op, NoCustomer)
    /\ UNCHANGED <<variant, env, customerMap, oldLen, oldTagged, created, overlapped, failed, started>>

\* the awaited vendor call throws failure: the catch block answers
HandlerFailsWith(c, failure) ==
    /\ req[c].pc = "call"
    /\ HandlerRespond(c, [req[c] EXCEPT !.failure = failure], Catch(req[c].kind, failure))
    /\ UNCHANGED <<variant, env, customerMap, oldLen, oldTagged, created, overlapped, failed, started>>

\* the awaited vendor call throws
HandlerFails(c) == \E failure \in VendorErrors : HandlerFailsWith(c, failure)

-----------------------------------------------------------------------------
(* The process *)

\* a directory of n records, none tagged or one tagged, at a list position
\* (1 = newest) among positions
InitDirectory(n, positions, users) ==
    /\ oldLen = n
    /\ \/ oldTagged = {}
       \/ \E p \in positions \cap (1..n), u \in users : oldTagged = {<<n - p + 1, u>>}

InitProcess ==
    /\ customerMap = [u \in Users |-> NoCustomer]
    /\ created = <<>>
    /\ req = [c \in Conns |-> Idle]
    /\ last = Idle
    /\ resolved = [u \in Users |-> <<>>]
    /\ overlapped = [u \in Users |-> FALSE]
    /\ failed = [u \in Users |-> FALSE]
    /\ started = 0

\* either backend, over a directory of at most two pages
Init ==
    /\ variant \in Variants
    /\ env = EnvNames
    /\ \E n \in {0, 1, Limit + 1} : InitDirectory(n, {1, n}, Users)
    /\ InitProcess

\* the scanning backend over a directory of more than ScanLimit records
InitLarge ==
    /\ variant = "scan"
    /\ env = EnvNames
    /\ InitDirectory(MaxOld, {ScanLimit}, {"u1"})
    /\ InitProcess

Next ==
    \E c \in Conns :
        \/ \E userId \in Users \cup {Undefined} : StartCreateCustomer(c, userId)
        \/ ListReturns(c)
        \/ ListFails(c)
        \/ CreateReturns(c)
        \/ CreateFails(c)
        \/ \E userId \in Users : StartPaymentMethods(c, userId)
        \/ PaymentMethodsReturns(c)
        \/ PaymentMethodsFails(c)
        \/ \E amount \in Amounts : StartPaymentIntent(c, amount)
        \/ PaymentIntentReturns(c)
        \/ PaymentIntentFails(c)

\* any backend, with or without its environment variables, over a small directory
InitHandlers ==
    /\ variant \in Backends
    /\ env \in SUBSET EnvNames
    /\ variant # "connect" => env = EnvNames
    /\ \E n \in {0, 1} : InitDirectory(n, {1}, {"u1"})
    /\ InitProcess

\* the backends that serve create-customer, payment-methods and create-payment-intent
HasResolver == variant # "minimal"

\* the requests of one connection, to every route of the backend
NextHandlers ==
    \E c \in {"a"} :
        \/ \E route \in Routes : \E body \in Bodies(route) : StartHandler(c, route, body)
        \/ HandlerReturns(c)
        \/ HandlerFails(c)
        \/ \E userId \in {"u1", Undefined} : HasResolver /\ StartCreateCustomer(c, userId)
        \/ ListReturns(c)
        \/ ListFails(c)
        \/ CreateReturns(c)
        \/ CreateFails(c)
        \/ HasResolver /\ StartPaymentMethods(c, "u1")
        \/ PaymentMethodsReturns(c)
        \/ PaymentMethodsFails(c)
        \/ \E amount \in Amounts : HasResolver /\ StartPaymentIntent(c, amount)
        \/ PaymentIntentReturns(c)
        \/ PaymentIntentFails(c)

Spec == Init /\ [][Next]_vars

SpecHandlers == InitHandlers /\ [][NextHandlers]_vars

SpecLarge == InitLarge /\ [][Next]_vars

\* the vendor call awaited by the request of connection c returns or fails and
\* the handler runs on from its await
Settles(c) ==
    \/ ListReturns(c)
    \/ ListFails(c)
    \/ CreateReturns(c)
    \/ CreateFails(c)
    \/ PaymentMethodsReturns(c)
    \/ PaymentMethodsFails(c)
    \/ PaymentIntentReturns(c)
    \/ PaymentIntentFails(c)
    \/ HandlerReturns(c)
    \/ HandlerFails(c)

\* every awaited vendor call eventually returns or fails
VendorAnswers == \A c \in Conns : WF_vars(Settles(c))

SpecFair == Spec /\ VendorAnswers

SpecHandlersFair == SpecHandlers /\ VendorAnswers

SpecLargeFair == SpecLarge /\ VendorAnswers

-----------------------------------------------------------------------------
(* Properties *)

TypeOK ==
    /\ variant \in Backends
    /\ env \subseteq EnvNames
    /\ customerMap \in [Users -> 0..DirLen]
    /\ created \in Seq(Users)
    /\ started \in 0..RequestBound
    /\ \A c \in Conns : req[c].pc \in {"idle", "list", "create", "pmlist", "picreate", "call", "unanswered"}

\* the step sends a response
Responds == Answered' = Answered + 1

Lists(r) == Count(r.calls, "customers.list")
Creates(r) == Count(r.calls, "customers.create")

\* a record tagged with userId was among the first n of the directory when the
\* request r was received
MatchAtStart(r, n) ==
    \E id \in 1..r.dirAtStart : TagOf(id) = r.userId /\ r.dirAtStart - id + 1 <= n

\* C1: a create-customer request for a userId that is a key of the cache is answered
\* at once with the cached customerId, without any vendor call, and leaves the
\* cache (and the directory) as it was.
C1_CacheHitNoVendorCall ==
    [][\A c \in Conns, u \in Users :
          (StartCreateCustomer(c, u) /\ customerMap[u] # NoCustomer)
          => /\ Responds
             /\ last'.status = 200
             /\ last'.customerId = customerMap[u]
             /\ last'.calls = <<>>
             /\ req'[c].pc = "idle"
             /\ customerMap' = customerMap
             /\ created' = created]_vars

C1_Witness ==
    /\ last.kind = "create-customer"
    /\ last.cached # NoCustomer
    /\ last.status = 200
    /\ last.customerId = last.cached
    /\ last.calls = <<>>

\* the step issues customers.create for the request on connection c
IssuesCreate(c) == req[c].pc # "create" /\ req'[c].pc = "create"

\* C2 (as stated): customers.create is issued for a userId only if, at that moment,
\* the userId is not in the cache and no directory record is tagged with it.
C2_CreateOnlyIfNoneAnywhere ==
    [][\A c \in Conns :
          IssuesCreate(c)
          => /\ customerMap[req'[c].userId] = NoCustomer
             /\ Tagged(req'[c].userId) = {}]_vars

\* C2 (amended): customers.create is issued for a userId only if the userId was not
\* in the cache when the request was received and, in the scanning backend when no
\* customers.list call of the request failed, no record that existed when the
\* request was received is tagged with the userId.
C2_CreateOnlyAfterMiss ==
    [][\A c \in Conns :
          IssuesCreate(c)
          => /\ req'[c].cached = NoCustomer
             /\ (variant = "scan" /\ ~req'[c].listFailed)
                => /\ Lists(req'[c]) >= 1
                   /\ \A id \in 1..req'[c].dirAtStart : TagOf(id) # req'[c].userId]_vars

C2_Witness ==
    \E c \in Conns :
        /\ variant = "scan"
        /\ req[c].pc = "create"
        /\ ~req[c].listFailed
        /\ Lists(req[c]) = 2
        /\ oldTagged # {}

\* C3 (as stated): once the cache holds a customerId for a userId, no later step
\* replaces it with another customerId.
C3_EntryNeverReplaced ==
    [][\A u \in Users :
          customerMap[u] # NoCustomer => customerMap'[u] = customerMap[u]]_vars

\* C3 (amended): an entry of the cache is replaced only by a request for the same
\* userId that was received while the cache held no entry for it, before the entry
\* was stored; a request received once the entry is there leaves it as it is.
C3_EntryReplacedOnlyByOverlap ==
    [][\A u \in Users :
          (customerMap[u] # NoCustomer /\ customerMap'[u] # customerMap[u])
          => \E c \in Conns :
                /\ req[c].pc \in {"list", "create"}
                /\ req[c].userId = u
                /\ req[c].cached = NoCustomer
                /\ req'[c].pc \notin {"list", "create"}
                /\ customerMap'[u] # NoCustomer]_vars

C3_Witness ==
    \E u \in Users :
        /\ Len(resolved[u]) = 2
        /\ resolved[u][1] # resolved[u][2]
        /\ customerMap[u] = resolved[u][2]
        /\ ~failed[u]

\* C4 (as stated): one resolution issues at most MaxPages customers.list calls,
\* whatever the size of the directory.
C4_ScanBounded ==
    /\ \A c \in Conns : Lists(req[c]) <= MaxPages
    /\ Lists(last) <= MaxPages

\* the step sends the response of a create-customer request
Resolves == Responds /\ last'.kind = "create-customer"

\* C5: a create-customer request for a userId that is in neither the cache nor the
\* directory, which overlaps no other resolution of the userId and meets no vendor
\* failure, issues exactly one customers.create call, answers with the id of the
\* record that call created (tagged with the userId), and stores it in the cache.
C5_MissCreatesOne ==
    [][(/\ Resolves
        /\ last'.cached = NoCustomer
        /\ last'.alone
        /\ ~last'.listFailed
        /\ last'.status # 500
        /\ last'.userId \in Users
        /\ ~MatchAtStart(last, last.dirAtStart)')
       => /\ last'.status = 200
          /\ Creates(last') = 1
          /\ created' = Append(created, last'.userId)
          /\ last'.customerId = DirLen'
          /\ last'.customerId = last'.newId
          /\ TagOf(last.customerId)' = last'.userId
          /\ customerMap' = [customerMap EXCEPT ![last'.userId] = last'.customerId]]_vars

C5_Witness ==
    /\ last.kind = "create-customer"
    /\ last.cached = NoCustomer
    /\ last.alone
    /\ ~last.listFailed
    /\ ~MatchAtStart(last, last.dirAtStart)
    /\ variant = "scan"
    /\ oldLen > Limit
    /\ last.status = 200
    /\ Creates(last) = 1
    /\ customerMap[last.userId] = last.newId

\* C6: in the scanning backend, a create-customer request for a userId that is not
\* in the cache while a record tagged with it is among the first ScanLimit records
\* of the directory, and whose customers.list calls all succeed, answers with the id
\* of a directory record tagged with the userId (the one record, when there is only
\* one), stores it in the cache and issues no customers.create call.
C6_FoundInDirectory ==
    [][(/\ Resolves
        /\ variant = "scan"
        /\ last'.cached = NoCustomer
        /\ ~last'.listFailed
        /\ last'.userId \in Users
        /\ MatchAtStart(last, ScanLimit)')
       => /\ last'.status = 200
          /\ Creates(last') = 0
          /\ last'.newId = NoCustomer
          /\ created' = created
          /\ (last.customerId \in Tagged(last.userId))'
          /\ customerMap' = [customerMap EXCEPT ![last'.userId] = last'.customerId]]_vars

C6_Witness ==
    /\ last.kind = "create-customer"
    /\ variant = "scan"
    /\ last.cached = NoCustomer
    /\ ~last.listFailed
    /\ MatchAtStart(last, ScanLimit)
    /\ ~MatchAtStart(last, ScanLimit - 1)
    /\ Lists(last) = MaxPages
    /\ last.status = 200
    /\ Creates(last) = 0
    /\ last.customerId \in Tagged(last.userId)
    /\ customerMap[last.userId] = last.customerId

\* no record of the initial directory is tagged with userId
Unknown(userId) == \A t \in oldTagged : t[2] # userId

\* C7: when the resolutions of a userId follow one another without overlap and
\* without vendor failure, from an empty cache and a directory that holds no record
\* of the userId, the first one creates a record and caches it, and every later one
\* answers with the same customerId and issues no vendor call.
C7_SequentialResolutions ==
    \A u \in Users :
        (Unknown(u) /\ ~overlapped[u] /\ ~failed[u] /\ resolved[u] # <<>>)
        => /\ \A i \in 1..Len(resolved[u]) : resolved[u][i] = resolved[u][1]
           /\ customerMap[u] = resolved[u][1]
           /\ Tagged(u) = {resolved[u][1]}
           /\ resolved[u][1] > oldLen
           /\ (last.kind = "create-customer" /\ last.userId = u /\ last.status = 200)
              => IF Len(resolved[u]) = 1
                 THEN Creates(last) = 1 /\ last.newId = resolved[u][1]
                 ELSE last.calls = <<>> /\ last.customerId = resolved[u][1]

C7_Witness ==
    \E u \in Users :
        /\ oldLen = 0
        /\ ~overlapped[u] /\ ~failed[u]
        /\ Len(resolved[u]) = 3
        /\ last.kind = "create-customer" /\ last.userId = u
        /\ last.calls = <<>>
        /\ last.customerId = resolved[u][1]

\* the records this process created for userId
CreatedFor(userId) == {i \in 1..Len(created) : created[i] = userId}

\* C8: nothing serialises the miss with the create, so two overlapping resolutions
\* of a userId that is in neither cache nor directory both create a record (the
\* witness); and overlap is the only way, vendor failures apart, by which this
\* process comes to create a second record for a userId.
C8_DuplicateOnlyByOverlap ==
    \A u \in Users :
        (Cardinality(CreatedFor(u)) >= 2 /\ ~failed[u]) => overlapped[u]

C8_Witness ==
    \E u \in Users :
        /\ variant = "scan"
        /\ Unknown(u)
        /\ ~failed[u]
        /\ overlapped[u]
        /\ Cardinality(Tagged(u)) = 2
        /\ Len(resolved[u]) = 2
        /\ \A c \in Conns : ~InFlight(c)

\* C9: a customers.list failure during a create-customer request is not reported:
\* the request goes on to customers.create, its answer is that call's outcome, and
\* when the create succeeds the new customerId is answered and cached, also when a
\* record tagged with the userId is in the directory.
C9_ScanFailureSwallowed ==
    [][/\ \A c \in Conns :
            (req[c].pc = "list" /\ req[c].kind = "create-customer" /\ ListFails(c))
            => /\ ~Responds
               /\ req'[c].pc = "create"
               /\ Creates(req'[c]) = 1
       /\ (Resolves /\ last'.listFailed)
            => /\ Creates(last') = 1
               /\ \/ /\ last'.status = 200
                     /\ last'.customerId = DirLen'
                     /\ created' = Append(created, last'.userId)
                     /\ customerMap'[last'.userId] = last'.customerId
                  \/ /\ last'.status = 500
                     /\ last'.error = VendorMessage
                     /\ UNCHANGED <<created, customerMap>>]_vars

C9_Witness ==
    /\ last.kind = "create-customer"
    /\ last.listFailed
    /\ MatchAtStart(last, ScanLimit)
    /\ last.status = 200
    /\ last.customerId = last.newId
    /\ Cardinality(Tagged(last.userId)) = 2
    /\ customerMap[last.userId] = last.newId

\* C10: a create-payment-intent request whose amount is missing, zero or negative
\* is answered 400 with the error 'Valid amount is required', and no vendor call
\* is issued for it.
C10_InvalidAmountRejected ==
    /\ \A c \in Conns :
          req[c].kind = "create-payment-intent"
          => req[c].amount # <<>> /\ req[c].amount[1] > 0
    /\ (last.kind = "create-payment-intent"
        /\ (last.amount = <<>> \/ last.amount[1] <= 0))
       => /\ last.status = 400
          /\ last.error = "Valid amount is required"
          /\ last.calls = <<>>

C10_Witness ==
    /\ last.kind = "create-payment-intent"
    /\ last.amount = <<0>>
    /\ last.status = 400
    /\ last.calls = <<>>

-----------------------------------------------------------------------------
(* Properties of the handlers that pass a request on to the vendor *)

\* the latest response answers a request whose vendor call failed
VendorFailed == last.failure # NoError

\* C11: in transfer-to-provider, a transfers.create that fails with the code
\* balance_insufficient is answered 400 with the code balance_insufficient and the
\* message that the transfer will be retried; any other failure of the call is
\* answered 500 with the vendor's message.
C11_TransferFailure ==
    (last.kind = "connect/transfer-to-provider" /\ VendorFailed) =>
        IF last.failure.code = "balance_insufficient"
        THEN /\ last.status = 400
             /\ last.code = "balance_insufficient"
             /\ last.error = "Insufficient available balance"
             /\ last.message = "Transfer will be retried when funds are available"
        ELSE /\ last.status = 500
             /\ last.error = last.failure.message

C11_Witness ==
    /\ last.kind = "connect/transfer-to-provider"
    /\ last.failure.code = "balance_insufficient"
    /\ last.status = 400
    /\ Count(last.calls, "transfers.create") = 1

\* a vendor call of the request r failed
VendorFailure(r) ==
    r.failure # NoError \/ r.listFailed \/ (r.status = 500 /\ r.error = VendorMessage)

\* the response r carries the message of the vendor's error
CarriesVendorMessage(r) ==
    r.error = IF r.failure # NoError THEN r.failure.message ELSE VendorMessage

\* the vendor failures that a catch block of the handler answers with 400
Answered400(r) ==
    \/ /\ r.kind = "connect/transfer-to-provider"
       /\ r.failure.code = "balance_insufficient"
    \/ /\ r.kind = "verify-bank-account"
       /\ r.failure.code = "invalid_request_error"
       /\ Includes(r.failure.message, "bank_account")
    \/ /\ r.kind = "create-bank-payout"
       /\ \/ r.failure.code \in {"account_invalid", "account_required", "payouts_not_allowed"}
          \/ Includes(r.failure.message, "account")
          \/ Includes(r.failure.message, "payout")

\* C12 as stated: a vendor failure is never answered 2xx or 400, and unless it is
\* resource_missing it is answered 500 with the vendor's message.
C12_VendorFailure500 ==
    VendorFailure(last) =>
        /\ last.status \notin {200, 400}
        /\ last.failure.code # "resource_missing" =>
               (last.status = 500 /\ CarriesVendorMessage(last))

\* C12: a vendor failure is answered 500 with the vendor's message, unless it is
\* resource_missing, a failed customers.list of a directory scan, or one of the
\* failures the catch blocks of transfer-to-provider, verify-bank-account and
\* create-bank-payout single out, which are answered 400.
C12_VendorFailureAnswer ==
    (VendorFailure(last) /\ ~last.listFailed) =>
        IF Answered400(last) THEN last.status = 400
        ELSE last.failure.code # "resource_missing" =>
                (last.status = 500 /\ CarriesVendorMessage(last))

C12_Witness ==
    /\ last.kind = "create-bank-payout"
    /\ last.failure = [code |-> "api_error", message |-> "Insufficient funds"]
    /\ Count(last.calls, "payouts.create") = 1
    /\ last.status = 500
    /\ last.error = "Insufficient funds"

\* C13 as stated: a request that omits a field its handler takes is answered 400
\* without any vendor call (in a process whose environment is configured).
C13_MissingFieldRejected ==
    (last.missing # {} /\ env = EnvNames) =>
        (last.status = 400 /\ last.calls = <<>>)

\* C13: a request that omits a field its handler takes is answered 400 with a
\* static message and without any vendor call, in every handler but
\* create-account-session, which passes the request on to accountSessions.create
\* (in a process whose environment is configured).
C13_TestedFieldRejected ==
    (last.missing # {} /\ env = EnvNames) =>
        IF last.kind = "create-account-session"
        THEN Count(last.calls, "accountSessions.create") = 1
        ELSE /\ last.status = 400
             /\ last.calls = <<>>
             /\ last.failure = NoError
             /\ last.error \in {RequiredMessage(last.kind), "Valid amount is required",
                                "Payout destination required. Please set up a connected account or bank account."}

C13_Witness ==
    /\ last.kind = "connect/oauth-callback"
    /\ last.missing = {"code"}
    /\ env = EnvNames
    /\ last.status = 400
    /\ last.error = "OAuth code is required"
    /\ last.calls = <<>>

\* C14 as stated: a vendor call that fails with resource_missing is answered 404.
C14_MissingResource404 ==
    last.failure.code = "resource_missing" => last.status = 404

\* C14: a vendor call that fails with resource_missing is answered 404 (code
\* ACCOUNT_NOT_FOUND) in link-existing-account and nowhere else: the other
\* handlers answer it like any other vendor failure, except create-setup-intent
\* outside the scanning backend, which leaves the request without a response when
\* the message mentions test mode.
C14_NotFoundOnlyLinkAccount ==
    /\ last.status = 404 =>
           (last.kind = "connect/link-existing-account"
               /\ last.failure.code = "resource_missing")
    /\ last.failure.code = "resource_missing" =>
           IF last.kind = "connect/link-existing-account"
           THEN last.status = 404 /\ last.code = "ACCOUNT_NOT_FOUND"
           ELSE IF Answered400(last) THEN last.status = 400
           ELSE last.status = 500 /\ CarriesVendorMessage(last)
    /\ \A c \in Conns :
           req[c].pc = "unanswered" =>
               /\ req[c].kind = "create-setup-intent"
               /\ variant # "scan"
               /\ req[c].failure.code = "resource_missing"
               /\ Includes(req[c].failure.message, "test mode")

C14_Witness ==
    /\ last.kind = "connect/link-existing-account"
    /\ last.failure.code = "resource_missing"
    /\ Count(last.calls, "accounts.retrieve") = 1
    /\ last.status = 404

\* the request body of r
BodyOf(r) == [missing |-> r.missing, amount |-> r.amount, prefixed |-> r.prefixed]

\* the handlers outside the identity resolver (create-customer, payment-methods)
PassThrough == Routes \cup {"create-payment-intent"}

\* the request r went past the tests its handler makes before its first vendor call
PassedValidation(r) ==
    IF r.kind = "create-payment-intent" THEN ~InvalidAmount(r.amount)
    ELSE Validate(r.kind, BodyOf(r)) = Passed

\* the operations called by r, in order
OpsOf(r) == [i \in 1..Len(r.calls) |-> r.calls[i].op]

\* C15 as stated: outside the identity resolver, a request that passes validation
\* has issued exactly one vendor call when it is answered.
C15_ExactlyOneCall ==
    (last.kind \in PassThrough /\ PassedValidation(last)) => Len(last.calls) = 1

\* the handlers that await two vendor calls in sequence
TwoCalls == {"connect/create-login-link", "verify-bank-account", "create-bank-payout"}

\* C15: outside the identity resolver, a request that passes validation has issued
\* exactly one vendor call when it is answered, except in create-login-link,
\* verify-bank-account and create-bank-payout, which issue a second call after
\* the first has succeeded.
C15_OneOrTwoCalls ==
    (last.kind \in PassThrough /\ PassedValidation(last)) =>
        IF last.kind \in TwoCalls
        THEN \/ OpsOf(last) = Ops(last.kind)
             \/ OpsOf(last) = <<Ops(last.kind)[1]>> /\ last.failure # NoError
        ELSE Len(last.calls) = 1

C15_Witness ==
    /\ last.kind = "verify-bank-account"
    /\ OpsOf(last) = <<"tokens.create", "accounts.createExternalAccount">>
    /\ last.status = 200

\* the step is a step of the request of connection c
Steps(c) == req'[c] # req[c]

\* the vendor error recorded by the step, if it records one
Recorded(c) == IF req'[c].pc = "idle" THEN last'.failure ELSE req'[c].failure

\* a vendor call awaited by the request of connection c fails in this step
Fails(c) ==
    /\ Steps(c)
    /\ \/ ListFails(c)
       \/ CreateFails(c)
       \/ PaymentMethodsFails(c)
       \/ PaymentIntentFails(c)
       \/ Recorded(c) \in VendorErrors /\ HandlerFailsWith(c, Recorded(c))

\* the operation the request of connection c awaits
Awaited(c) == req[c].calls[Len(req[c].calls)].op

\* the step issues a vendor call op for the request of connection c
Issues(c, op) ==
    /\ req'[c].calls # req[c].calls
    /\ req'[c].calls # <<>>
    /\ Awaited(c)' = op

\* C16: nothing is retried: the step in which a vendor call fails does not issue
\* the failed operation again, no request with a failed scan lists again, a
\* request whose call failed awaits nothing more, and transfers.create is issued
\* only in the step that receives a client request.
C16_NothingRetried ==
    [][\A c \in Conns :
          /\ Fails(c) => ~Issues(c, Awaited(c))
          /\ req'[c].listFailed => req'[c].pc # "list"
          /\ req'[c].failure # NoError => req'[c].pc = "unanswered"
          /\ Issues(c, "transfers.create") =>
                 (req[c].pc = "idle" /\ started' = started + 1)]_vars

C16_Witness ==
    /\ last.kind = "connect/transfer-to-provider"
    /\ last.failure.code = "balance_insufficient"
    /\ OpsOf(last) = <<"transfers.create">>
    /\ \A c \in Conns : req[c].pc = "idle"
    /\ started = 1

-----------------------------------------------------------------------------
(* Properties of the directory scan and of the cache *)

\* the page the vendor holds for the customers.list the request of c awaits
AwaitedPage(c) == ListPage(req[c].startingAfter)

\* C17: when customers.list returns a page that holds a record tagged with the
\* userId, the scan stops: the step issues no further customers.list, even when
\* the directory has more records.
C17_StopsOnMatch ==
    [][\A c \in Conns :
          (/\ Steps(c)
           /\ ListReturns(c)
           /\ FindCustomer(AwaitedPage(c), req[c].userId) # NoCustomer) =>
              (req'[c].pc # "list" /\ ~Issues(c, "customers.list"))]_vars

C17_Witness ==
    /\ last.kind = "create-customer"
    /\ last.status = 200
    /\ last.dirAtStart > Limit
    /\ Lists(last) = 1
    /\ Creates(last) = 0
    /\ last.customerId > last.dirAtStart - Limit

\* customers.list returns to the request of c the page it awaits, with has_more
\* as given, and the page holds no record tagged with the userId
TurnWithoutMatch(c, has_more) ==
    /\ req[c].pc = "list"
    /\ Steps(c)
    /\ has_more \in HasMoreReports(AwaitedPage(c))
    /\ ScanTurn(c, [AwaitedPage(c) EXCEPT !.has_more = has_more])
    /\ FindCustomer(AwaitedPage(c), req[c].userId) = NoCustomer

CacheKeys == {u \in Users : CacheHas(u)}

\* C19: the cache only grows: no step removes a key.
C19_CacheOnlyGrows ==
    [][CacheKeys \subseteq CacheKeys']_vars

C19_Witness ==
    /\ CacheKeys = Users
    /\ last.kind = "create-customer"
    /\ last.status = 200
    /\ started = MaxRequests

\* the step in which customers.create fails answers 500 with the vendor's message
CreateFailureAnswered(c) ==
    /\ last'.kind = "create-customer"
    /\ last'.userId = req[c].userId
    /\ last'.status = 500
    /\ last'.error = VendorMessage

\* C20 as stated: when customers.create fails the request is answered 500 with
\* the vendor's message and the cache holds no entry for the userId afterwards.
C20_CreateFailureLeavesNoEntry ==
    [][\A c \in Conns :
          CreateFails(c) =>
              /\ CreateFailureAnswered(c)
              /\ \A u \in Users : u = req[c].userId => ~CacheHas(u)']_vars

\* C20: when customers.create fails the request is answered 500 with the
\* vendor's message and stores nothing: the step leaves the cache as it was, and
\* the cache holds an entry for the userId afterwards only if another request
\* stored it while this one was in flight (an overlapping resolution, or a
\* payment-methods lookup after this request's scan failed).
C20_CreateFailureStoresNothing ==
    [][\A c \in Conns :
          CreateFails(c) =>
              /\ CreateFailureAnswered(c)
              /\ customerMap' = customerMap
              /\ \A u \in Users :
                     (u = req[c].userId /\ CacheHas(u)') =>
                         (~req[c].alone \/ req[c].listFailed)]_vars

C20_Witness ==
    /\ last.kind = "create-customer"
    /\ last.status = 500
    /\ last.error = VendorMessage
    /\ Creates(last) = 1
    /\ last.alone
    /\ ~CacheHas(last.userId)

-----------------------------------------------------------------------------
(* Properties of create-account-link, create-bank-payout and create-payout *)

\* the requests that have called accountLinks.create: in flight or just answered
LinkRequests ==
    {r \in {req[c] : c \in Conns} \cup {last} :
        Count(r.calls, "accountLinks.create") = 1}

\* C21: in the backend that rewrites the URLs, the return_url and the refresh_url
\* passed to accountLinks.create begin with http.
C21_UrlsBeginWithHttp ==
    variant = "connect" =>
        \A r \in LinkRequests :
            StartsWithHttp(r.return_url) /\ StartsWithHttp(r.refresh_url)

\* C22: in create-bank-payout, a vendor failure with the code
\* invalid_request_error and a message that mentions bank_account is answered
\* 400 with the message about invalid bank account details.
C22_InvalidBankAccountMessage ==
    (/\ last.kind = "create-bank-payout"
     /\ last.failure.code = "invalid_request_error"
     /\ Includes(last.failure.message, "bank_account")) =>
        /\ last.status = 400
        /\ last.error = "Invalid bank account details. Please check your routing and account numbers."

-----------------------------------------------------------------------------
(* Properties of the cache and of the scan, over every handler *)

\* the step stores in the cache the record that the scan of the request of c
\* has found in the page it awaited
StoresMatch(c) ==
    /\ ListReturns(c)
    /\ FindCustomer(AwaitedPage(c), req[c].userId) # NoCustomer
    /\ customerMap' = [customerMap EXCEPT ![req[c].userId] =
                           FindCustomer(AwaitedPage(c), req[c].userId)]

\* the step stores in the cache the record that customers.create has returned
\* to the request of c
StoresCreated(c) ==
    /\ CreateReturns(c)
    /\ customerMap' = [customerMap EXCEPT ![req[c].userId] = DirLen + 1]

\* C23 as stated: a step changes the cache only if it is the step of a
\* create-customer or payment-methods request, none of whose vendor calls has
\* failed, in which the scan finds a match or customers.create returns.
C23_CacheWrittenOnlyWithoutFailure ==
    [][customerMap' # customerMap =>
          \E c \in Conns :
              /\ Steps(c)
              /\ req[c].kind \in {"create-customer", "payment-methods"}
              /\ ~Fails(c)
              /\ ~req[c].listFailed
              /\ StoresMatch(c) \/ StoresCreated(c)]_vars

\* C23: a step changes the cache only if it is the step of a create-customer or
\* payment-methods request in which the scan finds a match or customers.create
\* returns (also after a failed scan); the steps that answer a failed
\* validation, the steps in which a vendor call fails and the steps of every
\* other handler leave it unchanged.
C23_CacheWrittenOnlyByResolution ==
    [][customerMap' # customerMap =>
          \E c \in Conns :
              /\ Steps(c)
              /\ req[c].kind \in {"create-customer", "payment-methods"}
              /\ ~Fails(c)
              /\ StoresMatch(c) \/ StoresCreated(c)]_vars

C23_Witness ==
    /\ last.kind = "payment-methods"
    /\ last.cached = NoCustomer
    /\ Lists(last) = 1
    /\ last.customerId # NoCustomer
    /\ customerMap[last.userId] = last.customerId

\* C24: every entry of the cache, userId -> customerId, names a record that is
\* in the vendor's directory and whose metadata carries that userId.
C24_CacheEntriesAreTaggedRecords ==
    \A u \in Users :
        CacheHas(u) => /\ customerMap[u] \in 1..DirLen
                       /\ TagOf(customerMap[u]) = u

\* both ways of filling the cache have acted: one entry names a record found by
\* the scan, another a record the handler created
C24_Witness ==
    /\ variant = "scan"
    /\ \E u \in Users : CacheHas(u) /\ customerMap[u] <= oldLen
    /\ \E u \in Users : CacheHas(u) /\ customerMap[u] > oldLen

-----------------------------------------------------------------------------
(* Properties of GET payment-methods *)

EmptyList(r) ==
    /\ r.status = 200
    /\ r.body = "paymentMethods:[]"
    /\ Count(r.calls, "paymentMethods.list") = 0

\* the step of c ends the scan of a payment-methods request
EndsScan(c) ==
    /\ Steps(c)
    /\ req[c].kind = "payment-methods"
    /\ req[c].pc = "list"
    /\ req'[c].pc # "list"

\* C25: a payment-methods request never issues customers.create and no step of
\* it adds a record to the directory; when its userId is neither in the cache
\* nor tagged on a record of the directory, or when its scan fails, it answers
\* 200 with an empty list, without a paymentMethods.list call, and the step
\* that ends its scan leaves the cache unchanged.
C25_PaymentMethodsNeverCreates ==
    /\ [](last.kind = "payment-methods" =>
            /\ Creates(last) = 0
            /\ (last.listFailed \/ (last.cached = NoCustomer /\ Tagged(last.userId) = {}))
                  => EmptyList(last))
    /\ [][\A c \in Conns :
            /\ Steps(c) /\ req[c].kind = "payment-methods" => created' = created
            /\ EndsScan(c) /\ (Fails(c) \/ Tagged(req[c].userId) = {})
                  => /\ req'[c] = Idle
                     /\ EmptyList(last')
                     /\ customerMap' = customerMap]_vars

\* a scan of payment-methods failed on its second page and the request was
\* answered with the empty list
C25_Witness ==
    /\ last.kind = "payment-methods"
    /\ last.listFailed
    /\ Lists(last) = 2
    /\ EmptyList(last)

-----------------------------------------------------------------------------
(* Properties of the scan: termination and paging *)

\* the cursors of the customers.list calls a request has issued, in order
Cursors(r) ==
    LET lists == SelectSeq(r.calls, LAMBDA call : call.op = "customers.list")
    IN  [i \in 1..Len(lists) |-> lists[i].arg]

NoPageTwice(r) ==
    \A i, j \in 1..Len(Cursors(r)) : i # j => Cursors(r)[i] # Cursors(r)[j]

Scanning(c) == req[c].pc = "list"

ResolutionInFlight(c) ==
    InFlight(c) /\ req[c].kind \in {"create-customer", "payment-methods"}

\* C26: when every awaited vendor call returns or fails, a request that is
\* scanning eventually leaves the scan, every create-customer and
\* payment-methods request in flight is eventually answered, and no request
\* issues two customers.list calls with the same cursor.
C26_ScanTerminates ==
    /\ \A c \in Conns : Scanning(c) ~> ~Scanning(c)
    /\ \A c \in Conns : ResolutionInFlight(c) ~> ~InFlight(c)
    /\ [](\A c \in Conns : NoPageTwice(req[c]))
    /\ [](NoPageTwice(last))

\* a scan has read every page of a directory of more than MaxPages pages
\* without a match and the request has been answered
C26_Witness ==
    /\ Lists(last) > MaxPages
    /\ ~last.listFailed
    /\ Tagged(last.userId) = {} \/ last.newId # NoCustomer
    /\ last.status = 200

-----------------------------------------------------------------------------
(* Properties of every handler: the response *)

\* C27: when every awaited vendor call returns or fails, every request in
\* flight, to any handler, is eventually answered.  (A response ends the
\* request, so that no request is answered twice.)
C27_EveryRequestAnswered ==
    \A c \in Conns : InFlight(c) ~> ~InFlight(c)

-----------------------------------------------------------------------------
(* Properties of create-payout *)

\* destination && destination.startsWith("acct_"), for the body of request r
ConnectedDestination(r) == "destination" \notin r.missing /\ r.prefixed

OnlyTransfers(r) == \A i \in 1..Len(r.calls) : r.calls[i].op = "transfers.create"

\* C28: a create-payout request issues no vendor call other than
\* transfers.create, and issues that one only if its destination is present and
\* begins with 'acct_'; with a userId and a positive amount but a destination
\* that is missing or begins otherwise, it is answered 400 with the
\* destination message and without any vendor call.
C28_PayoutOnlyToConnectedAccount ==
    /\ \A c \in Conns :
           req[c].kind = "create-payout" =>
               /\ OnlyTransfers(req[c])
               /\ req[c].calls # <<>> => ConnectedDestination(req[c])
    /\ last.kind = "create-payout" =>
           /\ OnlyTransfers(last)
           /\ last.calls # <<>> => ConnectedDestination(last)
           /\ ("userId" \notin last.missing /\ ~InvalidAmount(last.amount)
                  /\ ~ConnectedDestination(last))
                 => /\ last.status = 400
                    /\ last.error = "Payout destination required. Please set up a connected account or bank account."
                    /\ last.calls = <<>>

\* a payout to a destination that does not begin with 'acct_' was refused
C28_Witness ==
    /\ last.kind = "create-payout"
    /\ last.missing = {}
    /\ ~InvalidAmount(last.amount)
    /\ ~last.prefixed
    /\ last.status = 400
    /\ last.calls = <<>>

-----------------------------------------------------------------------------
(* Properties of the scan: the cursor *)

\* the cursor of the call the step issues for the request of connection c
IssuedCursor(c) == req'[c].calls[Len(req'[c].calls)].arg

\* the pages asked for by r lie one after the other in the directory: the
\* first call has no cursor, the second starts after the Limit-th record of the
\* directory as it was when the first page was read, and each later one starts
\* Limit records further
Consecutive(r) ==
    LET cursors == Cursors(r)
    IN  /\ cursors # <<>> => cursors[1] = NoCustomer
        /\ Len(cursors) >= 2 =>
               cursors[2] \in (r.dirAtStart - Limit + 1)..(DirLen - Limit + 1)
        /\ \A i \in 2..(Len(cursors) - 1) : cursors[i + 1] = cursors[i] - Limit
        /\ \A i \in 2..Len(cursors) :
               /\ cursors[i] >= 1
               /\ ListPage(cursors[i]).hi = cursors[i] - 1

\* C29: the customers.list call that opens a scan carries no cursor, and every
\* later one carries the id of the last record of the page just read, which
\* was a full page; so the pages a request has asked for lie one after the
\* other from the top of the directory, without gap or repeat.
C29_CursorFollowsLastRecord ==
    /\ [][\A c \in Conns :
            (Steps(c) /\ Issues(c, "customers.list")) =>
                IF req[c].pc = "idle"
                THEN IssuedCursor(c) = NoCustomer
                ELSE /\ req[c].pc = "list"
                     /\ PageLength(AwaitedPage(c)) = Limit
                     /\ IssuedCursor(c) = AwaitedPage(c).lo
                     /\ ListPage(IssuedCursor(c)).hi = AwaitedPage(c).lo - 1]_vars
    /\ [](\A c \in Conns : Consecutive(req[c]))
    /\ [](Consecutive(last))

\* a scan went through the first ScanLimit records and found its match on the
\* last of them
C29_Witness ==
    /\ Lists(last) = MaxPages
    /\ last.cached = NoCustomer
    /\ last.customerId = oldLen - ScanLimit + 1
    /\ oldLen > ScanLimit

====
